---- MODULE Spec2Model ----
(***************************************************************************)
(* Model of the `fallback` crate (src/fallback/src/lib.rs).                *)
(*                                                                         *)
(* Fallback<T> stores two Option<T> (`data`, `base_data`).  is_some() and  *)
(* as_ref() borrow the pair; every other method consumes it.  The only     *)
(* object that changes across calls is FallbackIter, through next().       *)
(*                                                                         *)
(* An Option<T> is the record [tag |-> "None"] or                          *)
(* [tag |-> "Some", val |-> v].  A Fallback<T> is the record               *)
(* [data |-> Option, base_data |-> Option].                                *)
(***************************************************************************)
EXTENDS Integers, Sequences, FiniteSets

VARIABLES
    ty,         \* which T the pair was built with: "val", "option", "container", "str", "foo" or "iterable"
    self,       \* the Fallback<T> built by Fallback::new
    op,         \* "new" after Fallback::new, then the name of the last call made
    fn,         \* the closure passed to the call (<<>> when it takes none)
    res,        \* the value the last call returned
    calls,      \* invocations of the closure made by the call, in order
    iter,       \* the FallbackIter made by into_iter() (None when there is none)
    yielded,    \* the items next() has returned so far, in order
    polled,     \* per slot: TRUE once the underlying iterator has returned None
    ended,      \* TRUE once next() has returned None
    nexts       \* number of next() calls made on the iterator

vars == <<ty, self, op, fn, res, calls, iter, yielded, polled, ended, nexts>>

----------------------------------------------------------------------------
(* Bounds of the model *)

MaxVal == 2          \* values of T are 1..MaxVal
MaxLen == 3          \* containers, strings and iterators hold at most MaxLen elements
MaxExtraNexts == 2   \* next() is called at most MaxLen + MaxExtraNexts times on one iterator

Vals == 1..MaxVal
Chars == {"a", "b"}

BoundedSeq(S, n) == UNION {[1..k -> S] : k \in 0..n}

----------------------------------------------------------------------------
(* core::option::Option as the crate uses it *)

None == [tag |-> "None"]

Some(v) == [tag |-> "Some", val |-> v]

Opt(S) == {None} \cup {Some(v) : v \in S}

Option_is_some(o) == o.tag = "Some"

\* Option::and_then; f gives the answer of the closure for this invocation
Option_and_then(o, f) == IF Option_is_some(o) THEN f[o.val] ELSE None

\* Option::or
Option_or(o, optb) == IF Option_is_some(o) THEN o ELSE optb

\* Option::map; f gives the answer of the closure for this invocation
Option_map(o, f) == IF Option_is_some(o) THEN Some(f[o.val]) ELSE None

\* Option::as_ref: a borrow &T is modelled by the value it points to
Option_as_ref(o) == IF Option_is_some(o) THEN Some(o.val) ELSE None

\* Option::flatten on an Option<Option<T>>
Option_flatten(o) == IF Option_is_some(o) THEN o.val ELSE None

----------------------------------------------------------------------------
(* Closures.  The methods take `impl FnMut`, so a closure may keep state  *)
(* and answer differently each time it is invoked.  No method invokes its  *)
(* closure more than once per slot, so a closure is the pair of its        *)
(* answers: f[k][v] is what the k-th invocation returns on the value v.    *)

Closures(S, R) == [1..2 -> [S -> R]]

\* a closure without state: a function
IsFunction(f) == f[1] = f[2]

----------------------------------------------------------------------------
(* impl<T> Fallback<T> *)

Fallback_new(data, base_data) == [data |-> data, base_data |-> base_data]

FallbackOf(S) == {Fallback_new(d, b) : d \in Opt(S), b \in Opt(S)}

\* is_some() with && in place of ||
Fallback_is_some_both(this) == Option_is_some(this.data) /\ Option_is_some(this.base_data)

\* self.data.is_some() || self.base_data.is_some()
Fallback_is_some(this) == Option_is_some(this.data) \/ Option_is_some(this.base_data)

\* Fallback::new(self.data.as_ref(), self.base_data.as_ref())
Fallback_as_ref(this) == Fallback_new(Option_as_ref(this.data), Option_as_ref(this.base_data))

\* The invocation of f that Option::and_then or Option::map makes on one slot:
\* none on an absent slot.
Invocations(slot, o) ==
    IF Option_is_some(o) THEN <<[slot |-> slot, arg |-> o.val]>> ELSE <<>>

\* and_then as written with `.or(..)` instead of `.or_else(|| ..)`: f runs on base_data eagerly.
Fallback_and_then_eager(this, f) ==
    LET firstCalls == Invocations("data", this.data)
    IN  [ret   |-> Option_or(Option_and_then(this.data, f[1]),
                             Option_and_then(this.base_data, f[Len(firstCalls) + 1])),
         calls |-> firstCalls \o Invocations("base_data", this.base_data)]

\* and_then as `self.fallback().and_then(f)`: a rejected data does not fall through.
Fallback_and_then_nofall(this, f) ==
    [ret   |-> Option_and_then(Option_or(this.data, this.base_data), f[1]),
     calls |-> IF Option_is_some(this.data)
               THEN Invocations("data", this.data)
               ELSE Invocations("base_data", this.base_data)]

\* self.data.and_then(&mut f).or_else(|| self.base_data.and_then(&mut f))
\* `ret` is the returned Option, `calls` the invocations of f in order.
Fallback_and_then(this, f) ==
    LET first == Option_and_then(this.data, f[1])
        firstCalls == Invocations("data", this.data)
    IN  IF Option_is_some(first)
        THEN [ret |-> first, calls |-> firstCalls]
        ELSE [ret   |-> Option_and_then(this.base_data, f[Len(firstCalls) + 1]),
              calls |-> firstCalls \o Invocations("base_data", this.base_data)]

\* fallback() that prefers base_data
Fallback_fallback_swapped(this) == Option_or(this.base_data, this.data)

\* self.data.or(self.base_data)
Fallback_fallback(this) == Option_or(this.data, this.base_data)

\* map() that drops base_data
Fallback_map_dropbase(this, f) ==
    [ret   |-> Fallback_new(Option_map(this.data, f[1]), None),
     calls |-> Invocations("data", this.data)]

\* Fallback::new(self.data.map(&mut f), self.base_data.map(&mut f))
\* `ret` is the returned pair, `calls` the invocations of f in order.
Fallback_map(this, f) ==
    LET firstCalls == Invocations("data", this.data)
    IN  [ret   |-> Fallback_new(Option_map(this.data, f[1]),
                                Option_map(this.base_data, f[Len(firstCalls) + 1])),
         calls |-> firstCalls \o Invocations("base_data", this.base_data)]

\* (self.data, self.base_data)
Fallback_unzip(this) == <<this.data, this.base_data>>

(* impl<T> Fallback<Option<T>> *)

\* Fallback::new(self.data.flatten(), self.base_data.flatten())
Fallback_flatten(this) ==
    Fallback_new(Option_flatten(this.data), Option_flatten(this.base_data))

----------------------------------------------------------------------------
(* impl<T> Fallback<T> where &T: IntoIterator, its iterator ExactSizeIterator *)

Containers == BoundedSeq(Vals, MaxLen)

\* the closure of and_any with the emptiness test inverted
and_any_closure_inverted ==
    [k \in 1..2 |-> [s \in Containers |-> IF Len(s) = 0 THEN Some(s) ELSE None]]

\* |s| if s.into_iter().len() == 0 { None } else { Some(s) }
and_any_closure ==
    [k \in 1..2 |-> [s \in Containers |-> IF Len(s) = 0 THEN None ELSE Some(s)]]

Fallback_and_any(this) == Fallback_and_then(this, and_any_closure)

(* impl<T: AsRef<str>> Fallback<T>: a string is the sequence of its characters *)

Strings == BoundedSeq(Chars, MaxLen)

str_is_empty(s) == Len(s) = 0

\* |s| if s.as_ref().is_empty() { None } else { Some(s) }
and_any_str_closure ==
    [k \in 1..2 |-> [s \in Strings |-> IF str_is_empty(s) THEN None ELSE Some(s)]]

Fallback_and_any_str(this) == Fallback_and_then(this, and_any_str_closure)

----------------------------------------------------------------------------
(* impl<T> From<Fallback<T>> for Option<T> *)

\* the conversion with its branches exchanged
Option_from_exchanged(f) == IF Option_is_some(f.data) THEN f.base_data ELSE f.data

\* if f.data.is_some() { f.data } else { f.base_data }
Option_from(f) == IF Option_is_some(f.data) THEN f.data ELSE f.base_data

----------------------------------------------------------------------------
(* FallbackIter and impl IntoIterator for Fallback<T>                      *)
(*                                                                         *)
(* The iterator T::IntoIter is any Iterator.  It is modelled by `items`,   *)
(* the sequence of Options its next() will return, after which it returns  *)
(* None for ever, and by `marked`, which tells whether its type implements *)
(* the marker trait core::iter::FusedIterator.  A None inside `items` is   *)
(* an iterator that reports exhaustion and later produces elements again;  *)
(* a collection such as Vec is a sequence without None.  The marker is a   *)
(* safe trait: nothing stops a type from carrying it and still yielding    *)
(* after None.                                                             *)

Scripts == BoundedSeq(Opt(Vals), MaxLen)

\* the iterators of one type T::IntoIter
Iterables(m) == {[items |-> s, marked |-> m] : s \in Scripts}

\* T::IntoIter::next(): `item` is what it returns, `iter` the iterator afterwards
Iter_next(it) ==
    IF Len(it.items) = 0
    THEN [item |-> None, iter |-> it]
    ELSE [item |-> Head(it.items), iter |-> [it EXCEPT !.items = Tail(it.items)]]

\* Iterator::fuse(): core::iter::Fuse { iter: Some(iter) }
Fuse_new(it) == [iter |-> Some(it)]

\* the adapter without fusing: every call is passed to the underlying iterator
Fuse_next_unfused(fuse) ==
    IF Option_is_some(fuse.iter)
    THEN LET r == Iter_next(fuse.iter.val)
         IN  [item |-> r.item, fuse |-> [iter |-> Some(r.iter)],
              exhausted |-> ~Option_is_some(r.item)]
    ELSE [item |-> None, fuse |-> fuse, exhausted |-> FALSE]

\* Fuse::next().  For an iterator type without the FusedIterator marker the
\* underlying iterator is dropped the first time it returns None; for a type
\* with the marker std specialises Fuse to pass every call through.
\* `exhausted` tells that the underlying iterator was called and returned None.
Fuse_next(fuse) ==
    IF Option_is_some(fuse.iter)
    THEN LET r == Iter_next(fuse.iter.val)
         IN  IF fuse.iter.val.marked
             THEN [item |-> r.item, fuse |-> [iter |-> Some(r.iter)],
                   exhausted |-> ~Option_is_some(r.item)]
             ELSE IF Option_is_some(r.item)
                  THEN [item |-> r.item, fuse |-> [iter |-> Some(r.iter)], exhausted |-> FALSE]
                  ELSE [item |-> None, fuse |-> [iter |-> None], exhausted |-> TRUE]
    ELSE [item |-> None, fuse |-> fuse, exhausted |-> FALSE]

\* self.data.as_mut().and_then(|data| data.next()) on one slot of the FallbackIter
Slot_next(slot) ==
    IF Option_is_some(slot)
    THEN LET r == Fuse_next(slot.val)
         IN  [item |-> r.item, slot |-> Some(r.fuse), exhausted |-> r.exhausted]
    ELSE [item |-> None, slot |-> slot, exhausted |-> FALSE]

\* next() that stops when either side is exhausted (&& in place of ||)
FallbackIter_next_zip(this) ==
    LET d == Slot_next(this.data)
        based == Slot_next(this.base_data)
    IN  [ret  |-> IF Option_is_some(d.item) /\ Option_is_some(based.item)
                  THEN Some(Fallback_new(d.item, based.item))
                  ELSE None,
         iter |-> [data |-> d.slot, base_data |-> based.slot],
         exhausted |-> [data |-> d.exhausted, base_data |-> based.exhausted]]

\* FallbackIter::next(): `ret` is what it returns, `iter` the FallbackIter afterwards
FallbackIter_next(this) ==
    LET d == Slot_next(this.data)
        based == Slot_next(this.base_data)
    IN  [ret  |-> IF Option_is_some(d.item) \/ Option_is_some(based.item)
                  THEN Some(Fallback_new(d.item, based.item))
                  ELSE None,
         iter |-> [data |-> d.slot, base_data |-> based.slot],
         exhausted |-> [data |-> d.exhausted, base_data |-> based.exhausted]]

\* self.data.map(|data| data.into_iter().fuse()) on one slot
Slot_into_iter(o) == IF Option_is_some(o) THEN Some(Fuse_new(o.val)) ELSE None

\* FallbackIter { data: .., base_data: .. }
IntoIterator_into_iter(this) ==
    [data |-> Slot_into_iter(this.data), base_data |-> Slot_into_iter(this.base_data)]

----------------------------------------------------------------------------
(* FallbackSpec for the record Foo { data1: i32, data2: String }           *)

Foo == [data1 : Vals, data2 : Strings]

\* the conversion with data2 built from the slots in the wrong order
FallbackFoo_from_crossed(data) ==
    LET pair == Fallback_unzip(data)
        d == pair[1]
        b == pair[2]
        data1 == IF Option_is_some(d) THEN Some(d.val.data1) ELSE None
        data2 == IF Option_is_some(d) THEN Some(d.val.data2) ELSE None
        base_data1 == IF Option_is_some(b) THEN Some(b.val.data1) ELSE None
        base_data2 == IF Option_is_some(b) THEN Some(b.val.data2) ELSE None
    IN  [data1 |-> Fallback_new(data1, base_data1),
         data2 |-> Fallback_new(base_data2, data2)]

\* impl From<Fallback<Foo>> for FallbackFoo
FallbackFoo_from(data) ==
    LET pair == Fallback_unzip(data)
        d == pair[1]
        b == pair[2]
        data1 == IF Option_is_some(d) THEN Some(d.val.data1) ELSE None
        data2 == IF Option_is_some(d) THEN Some(d.val.data2) ELSE None
        base_data1 == IF Option_is_some(b) THEN Some(b.val.data1) ELSE None
        base_data2 == IF Option_is_some(b) THEN Some(b.val.data2) ELSE None
    IN  [data1 |-> Fallback_new(data1, base_data1),
         data2 |-> Fallback_new(data2, base_data2)]

\* T::SpecType::from(self)
Fallback_spec(this) == FallbackFoo_from(this)

----------------------------------------------------------------------------
(* Sets the closures are drawn from *)

\* f: impl FnMut(T) -> Option<V>, with V = T
PartialFns == Closures(Vals, Opt(Vals))

\* f: impl FnMut(T) -> V, with V = T
TotalFns == Closures(Vals, Vals)

NoFn == <<>>

----------------------------------------------------------------------------
(* State machine.  A behaviour is the life of one Fallback value: Init is  *)
(* the value built by Fallback::new.  is_some() and as_ref() take &self    *)
(* and leave the pair alive; every other method takes self and consumes    *)
(* it.  into_iter() leaves a FallbackIter on which next() is called        *)
(* repeatedly.                                                             *)

MaxNexts == MaxLen + MaxExtraNexts

Init ==
    /\ \/ ty = "val"       /\ self \in FallbackOf(Vals)
       \/ ty = "option"    /\ self \in FallbackOf(Opt(Vals))
       \/ ty = "container" /\ self \in FallbackOf(Containers)
       \/ ty = "str"       /\ self \in FallbackOf(Strings)
       \/ ty = "foo"       /\ self \in FallbackOf(Foo)
       \/ ty = "iterable"  /\ \E m \in BOOLEAN : self \in FallbackOf(Iterables(m))
    /\ op = "new"
    /\ fn = NoFn
    /\ res = None
    /\ calls = <<>>
    /\ iter = None
    /\ yielded = <<>>
    /\ polled = [data |-> FALSE, base_data |-> FALSE]
    /\ ended = FALSE
    /\ nexts = 0

\* the pair has not been moved out of: only calls through &self were made
Alive == op \in {"new", "is_some", "as_ref"}

\* a call that takes no closure and makes no iterator
Returns(name, value) ==
    /\ op' = name
    /\ res' = value
    /\ UNCHANGED <<ty, self, fn, calls, iter, yielded, polled, ended, nexts>>

IsSome ==
    /\ Alive
    /\ Returns("is_some", Fallback_is_some(self))

AsRef ==
    /\ Alive
    /\ Returns("as_ref", Fallback_as_ref(self))

DoFallback ==
    /\ Alive
    /\ Returns("fallback", Fallback_fallback(self))

Unzip ==
    /\ Alive
    /\ Returns("unzip", Fallback_unzip(self))

Flatten ==
    /\ Alive
    /\ ty = "option"
    /\ Returns("flatten", Fallback_flatten(self))

Into ==
    /\ Alive
    /\ Returns("into", Option_from(self))

AndThen ==
    /\ Alive
    /\ ty = "val"
    /\ \E f \in PartialFns :
        LET r == Fallback_and_then(self, f) IN
        /\ op' = "and_then"
        /\ fn' = f
        /\ res' = r.ret
        /\ calls' = r.calls
    /\ UNCHANGED <<ty, self, iter, yielded, polled, ended, nexts>>

Map ==
    /\ Alive
    /\ ty = "val"
    /\ \E f \in TotalFns :
        LET r == Fallback_map(self, f) IN
        /\ op' = "map"
        /\ fn' = f
        /\ res' = r.ret
        /\ calls' = r.calls
    /\ UNCHANGED <<ty, self, iter, yielded, polled, ended, nexts>>

AndAny ==
    /\ Alive
    /\ ty = "container"
    /\ LET r == Fallback_and_any(self) IN
        /\ op' = "and_any"
        /\ res' = r.ret
        /\ calls' = r.calls
    /\ UNCHANGED <<ty, self, fn, iter, yielded, polled, ended, nexts>>

AndAnyStr ==
    /\ Alive
    /\ ty = "str"
    /\ LET r == Fallback_and_any_str(self) IN
        /\ op' = "and_any_str"
        /\ res' = r.ret
        /\ calls' = r.calls
    /\ UNCHANGED <<ty, self, fn, iter, yielded, polled, ended, nexts>>

SpecFoo ==
    /\ Alive
    /\ ty = "foo"
    /\ Returns("spec", Fallback_spec(self))

IntoIter ==
    /\ Alive
    /\ ty = "iterable"
    /\ op' = "into_iter"
    /\ iter' = Some(IntoIterator_into_iter(self))
    /\ res' = None    \* next() has returned nothing yet
    /\ UNCHANGED <<ty, self, fn, calls, yielded, polled, ended, nexts>>

IterNext ==
    /\ op \in {"into_iter", "next"}
    /\ nexts < MaxNexts
    /\ LET r == FallbackIter_next(iter.val) IN
        /\ op' = "next"
        /\ res' = r.ret
        /\ iter' = Some(r.iter)
        /\ yielded' = IF Option_is_some(r.ret) THEN Append(yielded, r.ret.val) ELSE yielded
        /\ polled' = [data      |-> polled.data \/ r.exhausted.data,
                      base_data |-> polled.base_data \/ r.exhausted.base_data]
        /\ ended' = (ended \/ ~Option_is_some(r.ret))
    /\ nexts' = nexts + 1
    /\ UNCHANGED <<ty, self, fn, calls>>

Next ==
    \/ IsSome
    \/ AsRef
    \/ DoFallback
    \/ Unzip
    \/ Flatten
    \/ Into
    \/ AndThen
    \/ Map
    \/ AndAny
    \/ AndAnyStr
    \/ SpecFoo
    \/ IntoIter
    \/ IterNext

Spec == Init /\ [][Next]_vars

----------------------------------------------------------------------------
(* Properties *)

Absent(o) == ~Option_is_some(o)

Max(a, b) == IF a >= b THEN a ELSE b

\* C1: fallback() returns data when data is present, whatever base_data is;
\* returns base_data when data is absent; returns None when both are absent.
C1_FallbackPrefersData ==
    op = "fallback" =>
        /\ Option_is_some(self.data) => res = self.data
        /\ Absent(self.data) => res = self.base_data
        /\ (Absent(self.data) /\ Absent(self.base_data)) => res = None

C1_Witness ==
    /\ op = "fallback"
    /\ Option_is_some(self.data)
    /\ Option_is_some(self.base_data)
    /\ self.data # self.base_data
    /\ res = self.data

\* the invocation of the closure that reaches base_data: the second one if
\* data was present (and so took the first), the first one otherwise
BaseTurn == IF Option_is_some(self.data) THEN 2 ELSE 1

\* C2: and_then(f) returns f(data) when data is present and f(data) is present;
\* otherwise f(base_data) when base_data is present; otherwise None.  f(data)
\* and f(base_data) are the answers of the closure when it is invoked on them;
\* for a function f they are its values.
C2_AndThenResult ==
    op = "and_then" =>
        res = IF Option_is_some(self.data) /\ Option_is_some(fn[1][self.data.val])
              THEN fn[1][self.data.val]
              ELSE IF Option_is_some(self.base_data)
                   THEN fn[BaseTurn][self.base_data.val]
                   ELSE None

C2_Witness ==
    /\ op = "and_then"
    /\ IsFunction(fn)
    /\ Option_is_some(self.data)
    /\ Absent(fn[1][self.data.val])
    /\ Option_is_some(self.base_data)
    /\ Option_is_some(fn[1][self.base_data.val])
    /\ res = fn[1][self.base_data.val]

\* C3: during one and_then(f), f is invoked at most once on data and at most
\* once on base_data, the invocation on data comes first, f is never invoked
\* on an absent slot, and f is not invoked on base_data once f(data) is present.
C3_AndThenInvocations ==
    op = "and_then" =>
        LET onData == {i \in 1..Len(calls) : calls[i].slot = "data"}
            onBase == {i \in 1..Len(calls) : calls[i].slot = "base_data"}
        IN  /\ onData \cup onBase = 1..Len(calls)
            /\ Cardinality(onData) <= 1
            /\ Cardinality(onBase) <= 1
            /\ \A i \in onData, j \in onBase : i < j
            /\ \A i \in onData :
                  Option_is_some(self.data) /\ calls[i].arg = self.data.val
            /\ \A j \in onBase :
                  Option_is_some(self.base_data) /\ calls[j].arg = self.base_data.val
            /\ (Option_is_some(self.data) /\ Option_is_some(fn[1][self.data.val]))
                  => onBase = {}

C3_Witness ==
    /\ op = "and_then"
    /\ Option_is_some(self.data)
    /\ Option_is_some(self.base_data)
    /\ Option_is_some(fn[1][self.data.val])
    /\ Absent(fn[2][self.base_data.val])
    /\ calls = <<[slot |-> "data", arg |-> self.data.val]>>

\* C4: is_some() returns false if and only if both data and base_data are
\* absent, and true in the three other occupancy states.
C4_IsSome ==
    op = "is_some" =>
        /\ (res = FALSE) <=> (Absent(self.data) /\ Absent(self.base_data))
        /\ (Option_is_some(self.data) \/ Option_is_some(self.base_data)) => res = TRUE

C4_Witness ==
    /\ op = "is_some"
    /\ Absent(self.data)
    /\ Option_is_some(self.base_data)
    /\ res = TRUE

\* C5: converting the pair with From<Fallback<T>> for Option<T> gives the
\* same result as fallback() on the same pair.
C5_IntoEqualsFallback ==
    op = "into" => res = Fallback_fallback(self)

C5_Witness ==
    /\ op = "into"
    /\ Absent(self.data)
    /\ Option_is_some(self.base_data)
    /\ res = self.base_data

\* a slot that holds a finite collection: its iterator yields every element and then None
IsCollection(o) == Absent(o) \/ \A i \in 1..Len(o.val.items) : Option_is_some(o.val.items[i])

\* an absent slot counts as the empty sequence
AsSeq(o) == IF Option_is_some(o) THEN o.val.items ELSE <<>>

\* the i-th element of q, or None beyond its length
At(q, i) == IF i <= Len(q) THEN q[i] ELSE None

\* C6: iterating a pair of finite sequences until next() returns None yields
\* exactly max(len(data), len(base_data)) items, the i-th item is the pair of
\* the i-th elements (None where a side has fewer than i elements), and
\* resolving every item with fallback() gives the elements of data followed
\* by the elements of base_data at the positions beyond the length of data.
C6_LockstepIteration ==
    (ty = "iterable" /\ op \in {"into_iter", "next"}
        /\ IsCollection(self.data) /\ IsCollection(self.base_data)) =>
        LET p == AsSeq(self.data)
            s == AsSeq(self.base_data)
            n == Max(Len(p), Len(s))
            resolved == [i \in 1..Len(yielded) |-> Fallback_fallback(yielded[i])]
        IN  /\ Len(yielded) = IF nexts <= n THEN nexts ELSE n
            /\ ended <=> nexts > n
            /\ \A i \in 1..Len(yielded) : yielded[i] = Fallback_new(At(p, i), At(s, i))
            /\ ended => resolved = p \o SubSeq(s, Len(p) + 1, Len(s))

C6_Witness ==
    /\ ty = "iterable"
    /\ op = "next"
    /\ ended
    /\ IsCollection(self.data)
    /\ IsCollection(self.base_data)
    /\ Len(AsSeq(self.data)) = 1
    /\ Len(AsSeq(self.base_data)) = 3
    /\ Len(yielded) = 3
    /\ Absent(yielded[3].data)

\* C7: and_any() and and_any_str() return data when it is present and
\* non-empty; otherwise base_data when it is present and non-empty; otherwise
\* None, also when both slots hold empty containers.
C7_AndAnySkipsEmpty ==
    op \in {"and_any", "and_any_str"} =>
        res = IF Option_is_some(self.data) /\ Len(self.data.val) > 0
              THEN self.data
              ELSE IF Option_is_some(self.base_data) /\ Len(self.base_data.val) > 0
                   THEN self.base_data
                   ELSE None

C7_Witness ==
    /\ op = "and_any"
    /\ self.data = Some(<<>>)
    /\ Option_is_some(self.base_data)
    /\ Len(self.base_data.val) > 0
    /\ res = self.base_data

\* C8: the conversion of a pair of records is defined in all four occupancy
\* states, and every field of the companion equals new(p, s) with p the
\* field of the data record (None if that record is absent) and s the same
\* field of the base_data record (None if that record is absent).
C8_FieldwiseConversion ==
    op = "spec" =>
        LET p1 == IF Option_is_some(self.data) THEN Some(self.data.val.data1) ELSE None
            s1 == IF Option_is_some(self.base_data) THEN Some(self.base_data.val.data1) ELSE None
            p2 == IF Option_is_some(self.data) THEN Some(self.data.val.data2) ELSE None
            s2 == IF Option_is_some(self.base_data) THEN Some(self.base_data.val.data2) ELSE None
        IN  /\ DOMAIN res = {"data1", "data2"}
            /\ res.data1 = Fallback_new(p1, s1)
            /\ res.data2 = Fallback_new(p2, s2)

C8_Witness ==
    /\ op = "spec"
    /\ Option_is_some(self.data)
    /\ Option_is_some(self.base_data)
    /\ self.data.val.data1 # self.base_data.val.data1
    /\ self.data.val.data2 # self.base_data.val.data2
    /\ res.data2 = Fallback_new(Some(self.data.val.data2), Some(self.base_data.val.data2))

\* C9: map(f) keeps the occupancy pattern: each slot of the result is present
\* iff the same slot of the receiver is, and then holds f of its value (the
\* answer of the closure when invoked on it); so map(f).is_some() equals
\* is_some() of the receiver.
C9_MapKeepsOccupancy ==
    op = "map" =>
        /\ Option_is_some(res.data) <=> Option_is_some(self.data)
        /\ Option_is_some(self.data) => res.data = Some(fn[1][self.data.val])
        /\ Option_is_some(res.base_data) <=> Option_is_some(self.base_data)
        /\ Option_is_some(self.base_data)
              => res.base_data = Some(fn[BaseTurn][self.base_data.val])
        /\ Fallback_is_some(res) = Fallback_is_some(self)

C9_Witness ==
    /\ op = "map"
    /\ IsFunction(fn)
    /\ Absent(self.data)
    /\ Option_is_some(self.base_data)
    /\ fn[1][self.base_data.val] # self.base_data.val
    /\ res = Fallback_new(None, Some(fn[1][self.base_data.val]))

\* every item next() returns has at least one slot present
NonEmptyStep ==
    (op' = "next" /\ op \in {"into_iter", "next"}) =>
        (Option_is_some(res') => Fallback_is_some(res'.val))

\* what one call of next() may do, given the history before the call
FusedStep ==
    (op' = "next" /\ op \in {"into_iter", "next"}) =>
        /\ Option_is_some(res') => Fallback_is_some(res'.val)
        /\ (polled.data /\ Option_is_some(res')) => Absent(res'.val.data)
        /\ (polled.base_data /\ Option_is_some(res')) => Absent(res'.val.base_data)
        /\ ended => res' = None

\* the underlying iterator yields an element after it has returned None
YieldsAfterNone(it) ==
    \E i, j \in 1..Len(it.items) :
        i < j /\ Absent(it.items[i]) /\ Option_is_some(it.items[j])

\* the slot holds an iterator whose type carries the FusedIterator marker
\* although it yields after None
FalselyMarked(o) == Option_is_some(o) /\ o.val.marked /\ YieldsAfterNone(o.val)

\* C10 as claimed: the iterator is fused and never yields an empty pair,
\* whatever the underlying iterators do after reporting exhaustion: every item
\* next() returns has is_some() true; once the underlying iterator of a side
\* has returned None that side is None in every later item; and once next()
\* has returned None every later next() returns None.
C10_FusedWhatever == [][FusedStep]_vars

\* C10, amended: next() never returns an empty pair; and unless an underlying
\* iterator carries the FusedIterator marker while yielding after None, a side
\* whose underlying iterator has returned None is None in every later item and
\* once next() has returned None every later next() returns None.
C10_FusedIteration ==
    [][(op' = "next" /\ op \in {"into_iter", "next"}) =>
          /\ NonEmptyStep
          /\ (~FalselyMarked(self.data) /\ ~FalselyMarked(self.base_data)) => FusedStep]_vars

C10_Witness ==
    /\ ty = "iterable"
    /\ op = "next"
    /\ nexts = 2
    /\ ended
    /\ res = None
    /\ yielded = <<>>
    /\ Option_is_some(self.data)
    /\ ~self.data.val.marked
    /\ Len(self.data.val.items) = 2
    /\ Absent(self.data.val.items[1])
    /\ Option_is_some(self.data.val.items[2])
    /\ Absent(self.base_data)

====
